---- MODULE Spec2Model ----
(***************************************************************************)
(* Romaji typing matchers of the typing game, the game session that       *)
(* drives one of them, and the leaderboard.                                *)
(*                                                                         *)
(*   RomajiCore     (typing-game/src/game/RomajiCore.ts)                   *)
(*   InputHandler   (the matcher the GameEngine drives)                    *)
(*   GameEngine     (typing-game/src/game/GameEngine.ts)                   *)
(*   RankingManager (typing-game/src/game/RankingManager.ts)               *)
(*                                                                         *)
(* Strings are sequences of one-character strings, so that prefix tests,   *)
(* concatenation and slicing are computed as the code computes them.       *)
(* A kana character is written as an upper-case token: "SHI" is し,        *)
(* "XYA" is the small ゃ, "XTSU" is the small っ (sokuon), "NN" is ん,     *)
(* "CHOON" is ー, "TOUTEN" is 、 and "KUTEN" is 。.  "KANJI" stands for a  *)
(* character that has no entry in any table.  The token "ru" is the        *)
(* two-letter ASCII key that KANA_ROMAJI_MAP holds in place of る: no      *)
(* single character of a target is ever equal to it.                       *)
(***************************************************************************)
EXTENDS Integers, Sequences, FiniteSets, TLC

VARIABLES
    matcher,             \* which matcher class the client constructed and drives
    kanaText,            \* RomajiCore.kanaText
    currentIndex,        \* RomajiCore.currentIndex
    currentInputBuffer,  \* RomajiCore.currentInputBuffer
    inputReturn,         \* value returned by the last RomajiCore.input call
    targetKana,          \* InputHandler.targetKana
    hCurrentIndex,       \* InputHandler.currentIndex
    currentInput,        \* InputHandler.currentInput
    totalTyped,          \* InputHandler.totalTyped
    totalMisses,         \* InputHandler.totalMisses
    handleKeyReturn,     \* value returned by the last InputHandler.handleKey call
    callbacks,           \* callbacks fired by the last InputHandler call, in order
    evaluatedCalls,      \* handleKey calls made with a one-character key while not finished
    isRunning,           \* GameEngine.isRunning
    sentencesCompletedkq, \* GameEngine.sentencesCompletedkq
    timerInterval,       \* GameEngine.timerInterval: "none", or "set" while an interval is scheduled
    onFinishCalls,       \* calls of GameEngine.onFinishCallback since the last start()
    guideOffset,         \* offset at which the last renderRomajiGuide split the guide
    sentenceTyped,       \* keys accepted since the current sentence was loaded
    scores,              \* the list stored under STORAGE_KEY
    saveScoreReturn,     \* value returned by the last RankingManager.saveScore call
    saveScoreCalls       \* RankingManager.saveScore calls made so far

coreVars == <<kanaText, currentIndex, currentInputBuffer, inputReturn>>

handlerVars == <<targetKana, hCurrentIndex, currentInput, totalTyped, totalMisses,
                 handleKeyReturn, callbacks, evaluatedCalls>>

engineVars == <<isRunning, sentencesCompletedkq, timerInterval, onFinishCalls,
                guideOffset, sentenceTyped>>

rankingVars == <<scores, saveScoreReturn, saveScoreCalls>>

vars == <<matcher, kanaText, currentIndex, currentInputBuffer, inputReturn,
          targetKana, hCurrentIndex, currentInput, totalTyped, totalMisses,
          handleKeyReturn, callbacks, evaluatedCalls,
          isRunning, sentencesCompletedkq, timerInterval, onFinishCalls,
          guideOffset, sentenceTyped, scores, saveScoreReturn, saveScoreCalls>>

(***************************************************************************)
(* Bounds of the model.                                                    *)
(***************************************************************************)
\* longest RomajiCore target, in kana characters
MaxLen == 3

\* longest InputHandler target, in kana characters
MaxHandlerLen == 2

\* cap on InputHandler.totalTyped
MaxTyped == 5

\* cap on InputHandler.totalMisses
MaxMisses == 1

\* cap on the number of RankingManager.saveScore calls
MaxSaves == 3

\* kana a RomajiCore target is built from
Kana == {"TO", "SHI", "XYA", "NN", "XTSU", "A", "KANJI"}

\* kana an InputHandler target is built from
HandlerKana == {"SHI", "XYA", "NN", "XTSU", "KANJI"}

\* characters a keystroke can carry
Chars == {"a", "c", "h", "i", "l", "n", "o", "s", "t", "u", "x", "y", "'", "z", "?"}

\* one-character keys
Keys == {<<c>> : c \in Chars}

\* a key event whose name is longer than one character
NonCharKeys == {<<"T", "a", "b">>}

SeqsUpTo(S, n) == UNION {[1..m -> S] : m \in 0..n}

Targets == SeqsUpTo(Kana, MaxLen)

HandlerTargets == SeqsUpTo(HandlerKana, MaxHandlerLen)

(***************************************************************************)
(* JavaScript string primitives.                                           *)
(***************************************************************************)
\* s.startsWith(p)
startsWith(s, p) == Len(p) <= Len(s) /\ SubSeq(s, 1, Len(p)) = p

\* s.substring(from) and s.slice(from), from counted from 0
substring(s, from) == SubSeq(s, from + 1, Len(s))

\* s[i], i counted from 0; "undefined" past the end
charAt(s, i) == IF i + 1 <= Len(s) THEN s[i + 1] ELSE "undefined"

(***************************************************************************)
(* The tables.                                                             *)
(***************************************************************************)
ROMAJI_TABLE ==
    <<"A">> :> <<<<"a">>>> @@
    <<"I">> :> <<<<"i">>, <<"y", "i">>>> @@
    <<"U">> :> <<<<"u">>, <<"w", "u">>, <<"w", "h", "u">>>> @@
    <<"E">> :> <<<<"e">>>> @@
    <<"O">> :> <<<<"o">>>> @@
    <<"KA">> :> <<<<"k", "a">>, <<"c", "a">>>> @@
    <<"KI">> :> <<<<"k", "i">>>> @@
    <<"KU">> :> <<<<"k", "u">>, <<"c", "u">>, <<"q", "u">>>> @@
    <<"KE">> :> <<<<"k", "e">>>> @@
    <<"KO">> :> <<<<"k", "o">>, <<"c", "o">>>> @@
    <<"SA">> :> <<<<"s", "a">>>> @@
    <<"SHI">> :> <<<<"s", "h", "i">>, <<"s", "i">>, <<"c", "i">>>> @@
    <<"SU">> :> <<<<"s", "u">>>> @@
    <<"SE">> :> <<<<"s", "e">>, <<"c", "e">>>> @@
    <<"SO">> :> <<<<"s", "o">>>> @@
    <<"TA">> :> <<<<"t", "a">>>> @@
    <<"CHI">> :> <<<<"c", "h", "i">>, <<"t", "i">>>> @@
    <<"TSU">> :> <<<<"t", "s", "u">>, <<"t", "u">>>> @@
    <<"TE">> :> <<<<"t", "e">>>> @@
    <<"TO">> :> <<<<"t", "o">>>> @@
    <<"NA">> :> <<<<"n", "a">>>> @@
    <<"NI">> :> <<<<"n", "i">>>> @@
    <<"NU">> :> <<<<"n", "u">>>> @@
    <<"NE">> :> <<<<"n", "e">>>> @@
    <<"NO">> :> <<<<"n", "o">>>> @@
    <<"HA">> :> <<<<"h", "a">>>> @@
    <<"HI">> :> <<<<"h", "i">>>> @@
    <<"FU">> :> <<<<"f", "u">>, <<"h", "u">>>> @@
    <<"HE">> :> <<<<"h", "e">>>> @@
    <<"HO">> :> <<<<"h", "o">>>> @@
    <<"MA">> :> <<<<"m", "a">>>> @@
    <<"MI">> :> <<<<"m", "i">>>> @@
    <<"MU">> :> <<<<"m", "u">>>> @@
    <<"ME">> :> <<<<"m", "e">>>> @@
    <<"MO">> :> <<<<"m", "o">>>> @@
    <<"YA">> :> <<<<"y", "a">>>> @@
    <<"YU">> :> <<<<"y", "u">>>> @@
    <<"YO">> :> <<<<"y", "o">>>> @@
    <<"RA">> :> <<<<"r", "a">>>> @@
    <<"RI">> :> <<<<"r", "i">>>> @@
    <<"RU">> :> <<<<"r", "u">>>> @@
    <<"RE">> :> <<<<"r", "e">>>> @@
    <<"RO">> :> <<<<"r", "o">>>> @@
    <<"WA">> :> <<<<"w", "a">>>> @@
    <<"WO">> :> <<<<"w", "o">>>> @@
    <<"NN">> :> <<<<"n">>, <<"n", "n">>, <<"n", "'">>>> @@
    <<"GA">> :> <<<<"g", "a">>>> @@
    <<"GI">> :> <<<<"g", "i">>>> @@
    <<"GU">> :> <<<<"g", "u">>>> @@
    <<"GE">> :> <<<<"g", "e">>>> @@
    <<"GO">> :> <<<<"g", "o">>>> @@
    <<"ZA">> :> <<<<"z", "a">>>> @@
    <<"JI">> :> <<<<"j", "i">>, <<"z", "i">>>> @@
    <<"ZU">> :> <<<<"z", "u">>>> @@
    <<"ZE">> :> <<<<"z", "e">>>> @@
    <<"ZO">> :> <<<<"z", "o">>>> @@
    <<"DA">> :> <<<<"d", "a">>>> @@
    <<"DI">> :> <<<<"j", "i">>, <<"d", "i">>>> @@
    <<"DU">> :> <<<<"z", "u">>, <<"d", "u">>>> @@
    <<"DE">> :> <<<<"d", "e">>>> @@
    <<"DO">> :> <<<<"d", "o">>>> @@
    <<"BA">> :> <<<<"b", "a">>>> @@
    <<"BI">> :> <<<<"b", "i">>>> @@
    <<"BU">> :> <<<<"b", "u">>>> @@
    <<"BE">> :> <<<<"b", "e">>>> @@
    <<"BO">> :> <<<<"b", "o">>>> @@
    <<"PA">> :> <<<<"p", "a">>>> @@
    <<"PI">> :> <<<<"p", "i">>>> @@
    <<"PU">> :> <<<<"p", "u">>>> @@
    <<"PE">> :> <<<<"p", "e">>>> @@
    <<"PO">> :> <<<<"p", "o">>>> @@
    <<"XA">> :> <<<<"l", "a">>, <<"x", "a">>>> @@
    <<"XI">> :> <<<<"l", "i">>, <<"x", "i">>>> @@
    <<"XU">> :> <<<<"l", "u">>, <<"x", "u">>>> @@
    <<"XE">> :> <<<<"l", "e">>, <<"x", "e">>>> @@
    <<"XO">> :> <<<<"l", "o">>, <<"x", "o">>>> @@
    <<"XYA">> :> <<<<"l", "y", "a">>, <<"x", "y", "a">>>> @@
    <<"XYU">> :> <<<<"l", "y", "u">>, <<"x", "y", "u">>>> @@
    <<"XYO">> :> <<<<"l", "y", "o">>, <<"x", "y", "o">>>> @@
    <<"XTSU">> :> <<<<"l", "t", "u">>, <<"x", "t", "u">>, <<"l", "t", "s", "u">>>> @@
    <<"CHOON">> :> <<<<"-">>>> @@
    <<"KI", "XYA">> :> <<<<"k", "y", "a">>>> @@
    <<"KI", "XYU">> :> <<<<"k", "y", "u">>>> @@
    <<"KI", "XYO">> :> <<<<"k", "y", "o">>>> @@
    <<"SHI", "XYA">> :> <<<<"s", "h", "a">>, <<"s", "y", "a">>>> @@
    <<"SHI", "XYU">> :> <<<<"s", "h", "u">>, <<"s", "y", "u">>>> @@
    <<"SHI", "XYO">> :> <<<<"s", "h", "o">>, <<"s", "y", "o">>>> @@
    <<"CHI", "XYA">> :> <<<<"c", "h", "a">>, <<"c", "y", "a">>, <<"t", "y", "a">>>> @@
    <<"CHI", "XYU">> :> <<<<"c", "h", "u">>, <<"c", "y", "u">>, <<"t", "y", "u">>>> @@
    <<"CHI", "XYO">> :> <<<<"c", "h", "o">>, <<"c", "y", "o">>, <<"t", "y", "o">>>> @@
    <<"NI", "XYA">> :> <<<<"n", "y", "a">>>> @@
    <<"NI", "XYU">> :> <<<<"n", "y", "u">>>> @@
    <<"NI", "XYO">> :> <<<<"n", "y", "o">>>> @@
    <<"HI", "XYA">> :> <<<<"h", "y", "a">>>> @@
    <<"HI", "XYU">> :> <<<<"h", "y", "u">>>> @@
    <<"HI", "XYO">> :> <<<<"h", "y", "o">>>> @@
    <<"MI", "XYA">> :> <<<<"m", "y", "a">>>> @@
    <<"MI", "XYU">> :> <<<<"m", "y", "u">>>> @@
    <<"MI", "XYO">> :> <<<<"m", "y", "o">>>> @@
    <<"RI", "XYA">> :> <<<<"r", "y", "a">>>> @@
    <<"RI", "XYU">> :> <<<<"r", "y", "u">>>> @@
    <<"RI", "XYO">> :> <<<<"r", "y", "o">>>> @@
    <<"GI", "XYA">> :> <<<<"g", "y", "a">>>> @@
    <<"GI", "XYU">> :> <<<<"g", "y", "u">>>> @@
    <<"GI", "XYO">> :> <<<<"g", "y", "o">>>> @@
    <<"JI", "XYA">> :> <<<<"j", "a">>, <<"j", "y", "a">>, <<"z", "y", "a">>>> @@
    <<"JI", "XYU">> :> <<<<"j", "u">>, <<"j", "y", "u">>, <<"z", "y", "u">>>> @@
    <<"JI", "XYO">> :> <<<<"j", "o">>, <<"j", "y", "o">>, <<"z", "y", "o">>>> @@
    <<"BI", "XYA">> :> <<<<"b", "y", "a">>>> @@
    <<"BI", "XYU">> :> <<<<"b", "y", "u">>>> @@
    <<"BI", "XYO">> :> <<<<"b", "y", "o">>>> @@
    <<"PI", "XYA">> :> <<<<"p", "y", "a">>>> @@
    <<"PI", "XYU">> :> <<<<"p", "y", "u">>>> @@
    <<"PI", "XYO">> :> <<<<"p", "y", "o">>>> @@
    <<"FU", "XA">> :> <<<<"f", "a">>>> @@
    <<"FU", "XI">> :> <<<<"f", "i">>>> @@
    <<"FU", "XE">> :> <<<<"f", "e">>>> @@
    <<"FU", "XO">> :> <<<<"f", "o">>>> @@
    <<"VU">> :> <<<<"v", "u">>>> @@
    <<"U", "XI">> :> <<<<"w", "i">>>> @@
    <<"U", "XE">> :> <<<<"w", "e">>>> @@
    <<"VU_KATA">> :> <<<<"v", "u">>>> @@
    <<"TOUTEN">> :> <<<<",">>>> @@
    <<"KUTEN">> :> <<<<".">>>>

KANA_ROMAJI_MAP ==
    <<"A">> :> <<<<"a">>>> @@
    <<"I">> :> <<<<"i">>>> @@
    <<"U">> :> <<<<"u">>>> @@
    <<"E">> :> <<<<"e">>>> @@
    <<"O">> :> <<<<"o">>>> @@
    <<"KA">> :> <<<<"k", "a">>, <<"c", "a">>>> @@
    <<"KI">> :> <<<<"k", "i">>>> @@
    <<"KU">> :> <<<<"k", "u">>, <<"c", "u">>, <<"q", "u">>>> @@
    <<"KE">> :> <<<<"k", "e">>>> @@
    <<"KO">> :> <<<<"k", "o">>, <<"c", "o">>>> @@
    <<"SA">> :> <<<<"s", "a">>>> @@
    <<"SHI">> :> <<<<"s", "h", "i">>, <<"s", "i">>, <<"c", "i">>>> @@
    <<"SU">> :> <<<<"s", "u">>>> @@
    <<"SE">> :> <<<<"s", "e">>, <<"c", "e">>>> @@
    <<"SO">> :> <<<<"s", "o">>>> @@
    <<"TA">> :> <<<<"t", "a">>>> @@
    <<"CHI">> :> <<<<"c", "h", "i">>, <<"t", "i">>>> @@
    <<"TSU">> :> <<<<"t", "s", "u">>, <<"t", "u">>>> @@
    <<"TE">> :> <<<<"t", "e">>>> @@
    <<"TO">> :> <<<<"t", "o">>>> @@
    <<"NA">> :> <<<<"n", "a">>>> @@
    <<"NI">> :> <<<<"n", "i">>>> @@
    <<"NU">> :> <<<<"n", "u">>>> @@
    <<"NE">> :> <<<<"n", "e">>>> @@
    <<"NO">> :> <<<<"n", "o">>>> @@
    <<"HA">> :> <<<<"h", "a">>>> @@
    <<"HI">> :> <<<<"h", "i">>>> @@
    <<"FU">> :> <<<<"f", "u">>, <<"h", "u">>>> @@
    <<"HE">> :> <<<<"h", "e">>>> @@
    <<"HO">> :> <<<<"h", "o">>>> @@
    <<"MA">> :> <<<<"m", "a">>>> @@
    <<"MI">> :> <<<<"m", "i">>>> @@
    <<"MU">> :> <<<<"m", "u">>>> @@
    <<"ME">> :> <<<<"m", "e">>>> @@
    <<"MO">> :> <<<<"m", "o">>>> @@
    <<"YA">> :> <<<<"y", "a">>>> @@
    <<"YU">> :> <<<<"y", "u">>>> @@
    <<"YO">> :> <<<<"y", "o">>>> @@
    <<"RA">> :> <<<<"r", "a">>>> @@
    <<"RI">> :> <<<<"r", "i">>>> @@
    <<"ru">> :> <<<<"r", "u">>>> @@
    <<"RE">> :> <<<<"r", "e">>>> @@
    <<"RO">> :> <<<<"r", "o">>>> @@
    <<"WA">> :> <<<<"w", "a">>>> @@
    <<"WO">> :> <<<<"w", "o">>>> @@
    <<"NN">> :> <<<<"n", "n">>, <<"x", "n">>, <<"n">>>> @@
    <<"GA">> :> <<<<"g", "a">>>> @@
    <<"GI">> :> <<<<"g", "i">>>> @@
    <<"GU">> :> <<<<"g", "u">>>> @@
    <<"GE">> :> <<<<"g", "e">>>> @@
    <<"GO">> :> <<<<"g", "o">>>> @@
    <<"ZA">> :> <<<<"z", "a">>>> @@
    <<"JI">> :> <<<<"j", "i">>, <<"z", "i">>>> @@
    <<"ZU">> :> <<<<"z", "u">>>> @@
    <<"ZE">> :> <<<<"z", "e">>>> @@
    <<"ZO">> :> <<<<"z", "o">>>> @@
    <<"DA">> :> <<<<"d", "a">>>> @@
    <<"DI">> :> <<<<"j", "i">>, <<"d", "i">>>> @@
    <<"DU">> :> <<<<"z", "u">>, <<"d", "u">>>> @@
    <<"DE">> :> <<<<"d", "e">>>> @@
    <<"DO">> :> <<<<"d", "o">>>> @@
    <<"BA">> :> <<<<"b", "a">>>> @@
    <<"BI">> :> <<<<"b", "i">>>> @@
    <<"BU">> :> <<<<"b", "u">>>> @@
    <<"BE">> :> <<<<"b", "e">>>> @@
    <<"BO">> :> <<<<"b", "o">>>> @@
    <<"PA">> :> <<<<"p", "a">>>> @@
    <<"PI">> :> <<<<"p", "i">>>> @@
    <<"PU">> :> <<<<"p", "u">>>> @@
    <<"PE">> :> <<<<"p", "e">>>> @@
    <<"PO">> :> <<<<"p", "o">>>> @@
    <<"XYA">> :> <<<<"x", "y">>>> @@
    <<"XYU">> :> <<<<"x", "y", "u">>>> @@
    <<"XYO">> :> <<<<"x", "y", "o">>>> @@
    <<"XTSU">> :> <<<<"x", "t", "u">>, <<"x", "t", "s", "u">>>> @@
    <<"CHOON">> :> <<<<"-">>>>

COMBO_MAP ==
    <<"KI", "XYA">> :> <<<<"k", "y", "a">>>> @@
    <<"KI", "XYU">> :> <<<<"k", "y", "u">>>> @@
    <<"KI", "XYO">> :> <<<<"k", "y", "o">>>> @@
    <<"SHI", "XYA">> :> <<<<"s", "h", "a">>, <<"s", "y", "a">>>> @@
    <<"SHI", "XYU">> :> <<<<"s", "h", "u">>, <<"s", "y", "u">>>> @@
    <<"SHI", "XYO">> :> <<<<"s", "h", "o">>, <<"s", "y", "o">>>> @@
    <<"CHI", "XYA">> :> <<<<"c", "h", "a">>, <<"t", "y", "a">>>> @@
    <<"CHI", "XYU">> :> <<<<"c", "h", "u">>, <<"t", "y", "u">>>> @@
    <<"CHI", "XYO">> :> <<<<"c", "h", "o">>, <<"t", "y", "o">>>> @@
    <<"NI", "XYA">> :> <<<<"n", "y", "a">>>> @@
    <<"NI", "XYU">> :> <<<<"n", "y", "u">>>> @@
    <<"NI", "XYO">> :> <<<<"n", "y", "o">>>> @@
    <<"HI", "XYA">> :> <<<<"h", "y", "a">>>> @@
    <<"HI", "XYU">> :> <<<<"h", "y", "u">>>> @@
    <<"HI", "XYO">> :> <<<<"h", "y", "o">>>> @@
    <<"MI", "XYA">> :> <<<<"m", "y", "a">>>> @@
    <<"MI", "XYU">> :> <<<<"m", "y", "u">>>> @@
    <<"MI", "XYO">> :> <<<<"m", "y", "o">>>> @@
    <<"RI", "XYA">> :> <<<<"r", "y", "a">>>> @@
    <<"RI", "XYU">> :> <<<<"r", "y", "u">>>> @@
    <<"RI", "XYO">> :> <<<<"r", "y", "o">>>> @@
    <<"GI", "XYA">> :> <<<<"g", "y", "a">>>> @@
    <<"GI", "XYU">> :> <<<<"g", "y", "u">>>> @@
    <<"GI", "XYO">> :> <<<<"g", "y", "o">>>> @@
    <<"JI", "XYA">> :> <<<<"j", "a">>, <<"j", "y", "a">>, <<"z", "y", "a">>>> @@
    <<"JI", "XYU">> :> <<<<"j", "u">>, <<"j", "y", "u">>, <<"z", "y", "u">>>> @@
    <<"JI", "XYO">> :> <<<<"j", "o">>, <<"j", "y", "o">>, <<"z", "y", "o">>>> @@
    <<"BI", "XYA">> :> <<<<"b", "y", "a">>>> @@
    <<"BI", "XYU">> :> <<<<"b", "y", "u">>>> @@
    <<"BI", "XYO">> :> <<<<"b", "y", "o">>>> @@
    <<"PI", "XYA">> :> <<<<"p", "y", "a">>>> @@
    <<"PI", "XYU">> :> <<<<"p", "y", "u">>>> @@
    <<"PI", "XYO">> :> <<<<"p", "y", "o">>>>

(***************************************************************************)
(* RomajiCore                                                              *)
(***************************************************************************)
\* ROMAJI_TABLE[kana] || []
getPossibleRomaji(kana) == IF kana \in DOMAIN ROMAJI_TABLE THEN ROMAJI_TABLE[kana] ELSE <<>>

\* matchesAnything that looks at the first romaji only
matchesAnything_FirstOnly(kana, input) ==
    LET romajis == getPossibleRomaji(kana)
    IN  Len(romajis) > 0 /\ startsWith(romajis[1], input)

matchesAnything(kana, input) ==
    LET romajis == getPossibleRomaji(kana)
    IN  \E i \in 1..Len(romajis) : startsWith(romajis[i], input)

matchesPrefix(kana, key) ==
    LET romajis == getPossibleRomaji(kana)
    IN  \E i \in 1..Len(romajis) : startsWith(romajis[i], key)

isComplete(kana, input) ==
    LET romajis == getPossibleRomaji(kana)
    IN  \E i \in 1..Len(romajis) : romajis[i] = input

\* the first character of each romaji of kana
getConsonants(kana) ==
    LET romajis == getPossibleRomaji(kana)
    IN  {romajis[i][1] : i \in 1..Len(romajis)}

\* the finished test written with > in place of >=
isFinished_Strict == currentIndex > Len(kanaText)

isFinished == currentIndex >= Len(kanaText)

\* results of checkMatch; NoMatch is null
Match(count, buffer) ==
    [matched |-> TRUE, completedKanaCount |-> count, remainingBuffer |-> buffer]

NoMatch == [matched |-> FALSE, completedKanaCount |-> 0, remainingBuffer |-> <<>>]

\* lines 272-285: a single 'n' for ん when the left-over starts with a consonant
checkBareN(text, input) ==
    LET leftOver == substring(input, 1)
    IN  IF /\ text[1] = "NN"
           /\ startsWith(input, <<"n">>)
           /\ Len(leftOver) > 0
           /\ leftOver[1] \notin {"a", "i", "u", "e", "o", "y", "n"}
        THEN Match(1, leftOver)
        ELSE NoMatch

\* lines 255-270: っ consumed by a key that starts the next character
checkSokuonNext(text, input) ==
    IF /\ text[1] = "XTSU"
       /\ Len(text) >= 2
       /\ matchesPrefix(<<text[2]>>, SubSeq(input, 1, 1))
    THEN Match(1, input)
    ELSE checkBareN(text, input)

\* lines 245-253: input starts with a whole romaji of the current character
checkOverflow(text, input) ==
    LET validRomajis == getPossibleRomaji(<<text[1]>>)
        hits == {i \in 1..Len(validRomajis) : startsWith(input, validRomajis[i])}
    IN  IF hits # {}
        THEN LET first == CHOOSE i \in hits : \A j \in hits : i <= j
             IN  Match(1, substring(input, Len(validRomajis[first])))
        ELSE checkSokuonNext(text, input)

\* checkOneChar with the buffer left uncleared on a complete match
checkOneChar_KeepsBuffer(text, input) ==
    LET oneChar == <<text[1]>>
    IN  IF matchesAnything(oneChar, input)
        THEN IF isComplete(oneChar, input) THEN Match(1, input) ELSE Match(0, input)
        ELSE checkOverflow(text, input)

\* checkOneChar that keeps a bare 'n' pending in the buffer
checkOneChar_NasalPending(text, input) ==
    LET oneChar == <<text[1]>>
    IN  IF matchesAnything(oneChar, input)
        THEN IF isComplete(oneChar, input) /\ input # <<"n">>
             THEN Match(1, <<>>)
             ELSE Match(0, input)
        ELSE checkOverflow(text, input)

\* lines 238-243: the single character at the cursor
checkOneChar(text, input) ==
    LET oneChar == <<text[1]>>
    IN  IF matchesAnything(oneChar, input)
        THEN IF isComplete(oneChar, input) THEN Match(1, <<>>) ELSE Match(0, input)
        ELSE checkOverflow(text, input)

\* checkSokuon whose doubling consumes the following character as well
checkSokuon_SkipsNext(text, input) ==
    IF text[1] = "XTSU" /\ Len(text) >= 2
    THEN IF \E cons \in getConsonants(<<text[2]>>) : input = <<cons>>
         THEN Match(2, <<>>)
         ELSE IF matchesAnything(<<"XTSU">>, input)
              THEN IF isComplete(<<"XTSU">>, input) THEN Match(1, <<>>) ELSE Match(0, input)
              ELSE checkOneChar(text, input)
    ELSE checkOneChar(text, input)

\* checkSokuon that tries the spellings of っ before the doubling
checkSokuon_EscapeFirst(text, input) ==
    IF text[1] = "XTSU" /\ Len(text) >= 2
    THEN IF matchesAnything(<<"XTSU">>, input)
         THEN IF isComplete(<<"XTSU">>, input) THEN Match(1, <<>>) ELSE Match(0, input)
         ELSE IF \E cons \in getConsonants(<<text[2]>>) : input = <<cons>>
              THEN Match(1, <<>>)
              ELSE checkOneChar(text, input)
    ELSE checkOneChar(text, input)

\* lines 162-201: っ followed by another character
checkSokuon(text, input) ==
    IF text[1] = "XTSU" /\ Len(text) >= 2
    THEN IF \E cons \in getConsonants(<<text[2]>>) : input = <<cons>>
         THEN Match(1, <<>>)
         ELSE IF matchesAnything(<<"XTSU">>, input)
              THEN IF isComplete(<<"XTSU">>, input) THEN Match(1, <<>>) ELSE Match(0, input)
              ELSE checkOneChar(text, input)
    ELSE checkOneChar(text, input)

\* checkMatch that judges a two-kana table key by its own spellings only
checkMatch_NoFallback(text, input) ==
    IF Len(text) >= 2 /\ SubSeq(text, 1, 2) \in DOMAIN ROMAJI_TABLE
    THEN IF matchesAnything(SubSeq(text, 1, 2), input)
         THEN IF isComplete(SubSeq(text, 1, 2), input) THEN Match(2, <<>>) ELSE Match(0, input)
         ELSE NoMatch
    ELSE IF Len(text) >= 1 THEN checkSokuon(text, input) ELSE NoMatch

\* checkMatch that moves the cursor by 1 when a two-kana unit is completed
checkMatch_ComboAdvancesOne(text, input) ==
    IF Len(text) >= 2 /\ matchesAnything(SubSeq(text, 1, 2), input)
    THEN IF isComplete(SubSeq(text, 1, 2), input) THEN Match(1, <<>>) ELSE Match(0, input)
    ELSE IF Len(text) >= 1 THEN checkSokuon(text, input) ELSE NoMatch

checkMatch(text, input) ==
    IF Len(text) >= 2 /\ matchesAnything(SubSeq(text, 1, 2), input)
    THEN IF isComplete(SubSeq(text, 1, 2), input) THEN Match(2, <<>>) ELSE Match(0, input)
    ELSE IF Len(text) >= 1 THEN checkSokuon(text, input) ELSE NoMatch

\* RomajiCore.input(key)
Input(key) ==
    /\ matcher = "RomajiCore"
    /\ IF isFinished
       THEN /\ inputReturn' = "false"
            /\ UNCHANGED <<currentIndex, currentInputBuffer>>
       ELSE LET remainingKana == substring(kanaText, currentIndex)
                nextInputBuffer == currentInputBuffer \o key
                matches == checkMatch(remainingKana, nextInputBuffer)
            IN  IF matches.matched
                THEN /\ currentIndex' = currentIndex + matches.completedKanaCount
                     /\ currentInputBuffer' =
                            IF matches.completedKanaCount > 0
                            THEN matches.remainingBuffer
                            ELSE nextInputBuffer
                     /\ inputReturn' = "true"
                ELSE /\ inputReturn' = "false"
                     /\ UNCHANGED <<currentIndex, currentInputBuffer>>
    /\ UNCHANGED <<matcher, kanaText>>
    /\ UNCHANGED handlerVars

\* RomajiCore.getNextExpectedRomaji(); a character without a table entry
\* is returned as it is
getNextExpectedRomaji ==
    IF isFinished
    THEN <<>>
    ELSE LET remaining == substring(kanaText, currentIndex)
         IN  IF startsWith(remaining, <<"XTSU">>)
             THEN IF Len(remaining) > 1 /\ Len(getPossibleRomaji(<<remaining[2]>>)) > 0
                  THEN LET nextRomaji == getPossibleRomaji(<<remaining[2]>>)[1]
                       IN  <<nextRomaji[1]>> \o nextRomaji
                  ELSE <<"x", "t", "u">>
             ELSE IF Len(remaining) >= 2 /\ SubSeq(remaining, 1, 2) \in DOMAIN ROMAJI_TABLE
                  THEN ROMAJI_TABLE[SubSeq(remaining, 1, 2)][1]
                  ELSE IF <<remaining[1]>> \in DOMAIN ROMAJI_TABLE
                       THEN ROMAJI_TABLE[<<remaining[1]>>][1]
                       ELSE <<remaining[1]>>

\* RomajiCore.getProgress()
getProgress ==
    [index |-> currentIndex, buffer |-> currentInputBuffer, toType |-> getNextExpectedRomaji]

(***************************************************************************)
(* InputHandler                                                            *)
(***************************************************************************)
\* the second characters that make a combo; the two-letter entries of the
\* list never equal a single character
smalls == {"XYA", "XYU", "XYO", "aa", "ee", "ii", "oo", "uu"}

isCombo(c1, c2) == c2 \in smalls

\* r[0] + r for every r of a list
doubledRomajis(romajis) == [i \in 1..Len(romajis) |-> <<romajis[i][1]>> \o romajis[i]]

RECURSIVE getPossibleRomajis(_, _)
getPossibleRomajis(target, index) ==
    LET c1 == charAt(target, index)
        c2 == charAt(target, index + 1)
    IN  IF c1 = "XTSU"
        THEN IF c2 = "undefined"
             THEN <<<<"x", "t", "u">>, <<"x", "t", "s", "u">>>>
             ELSE doubledRomajis(getPossibleRomajis(target, index + 1))
                      \o <<<<"x", "t", "u">>, <<"x", "t", "s", "u">>>>
        ELSE IF isCombo(c1, c2)
             THEN IF <<c1, c2>> \in DOMAIN COMBO_MAP
                  THEN COMBO_MAP[<<c1, c2>>]
                  ELSE <<<<"?">>>>
             ELSE IF <<c1>> \in DOMAIN KANA_ROMAJI_MAP
                  THEN KANA_ROMAJI_MAP[<<c1>>]
                  ELSE <<<<"?">>>>

\* InputHandler.getTargetRomaji(), the loop from position i on
RECURSIVE targetRomajiFrom(_, _)
targetRomajiFrom(target, i) ==
    IF i >= Len(target)
    THEN <<>>
    ELSE LET c1 == charAt(target, i)
             c2 == charAt(target, i + 1)
         IN  IF c1 = "XTSU"
             THEN IF c2 = "undefined"
                  THEN <<"x", "t", "u">> \o targetRomajiFrom(target, i + 1)
                  ELSE <<getPossibleRomajis(target, i + 1)[1][1]>>
                           \o targetRomajiFrom(target, i + 1)
             ELSE IF isCombo(c1, c2)
                  THEN (IF <<c1, c2>> \in DOMAIN COMBO_MAP
                        THEN COMBO_MAP[<<c1, c2>>][1]
                        ELSE <<"?">>) \o targetRomajiFrom(target, i + 2)
                  ELSE (IF <<c1>> \in DOMAIN KANA_ROMAJI_MAP
                        THEN KANA_ROMAJI_MAP[<<c1>>][1]
                        ELSE <<"?">>) \o targetRomajiFrom(target, i + 1)

getTargetRomaji == targetRomajiFrom(targetKana, 0)

\* InputHandler.getStats()
getStats == [typed |-> totalTyped, misses |-> totalMisses]

\* the callbacks of one call, as records in the order fired
KanaTyped(index) == [cb |-> "onKanaTyped", index |-> index, valid |-> TRUE, romaji |-> <<>>]

InputUpdate(valid, romaji) == [cb |-> "onInputUpdate", index |-> 0, valid |-> valid, romaji |-> romaji]

Complete == [cb |-> "onComplete", index |-> 0, valid |-> TRUE, romaji |-> <<>>]

\* an advance with the combo test inverted
advanceCount_Inverted ==
    IF isCombo(charAt(targetKana, hCurrentIndex), charAt(targetKana, hCurrentIndex + 1))
    THEN 1
    ELSE 2

\* advanceChar: the number of characters the cursor moves
advanceCount ==
    IF isCombo(charAt(targetKana, hCurrentIndex), charAt(targetKana, hCurrentIndex + 1))
    THEN 2
    ELSE 1

\* advanceChar that tests the end of the target with > in place of >=
advanceChar_CompleteOffByOne ==
    /\ hCurrentIndex' = hCurrentIndex + advanceCount
    /\ currentInput' = <<>>
    /\ callbacks' = <<KanaTyped(hCurrentIndex + advanceCount), InputUpdate(TRUE, <<>>)>>
                    \o (IF hCurrentIndex + advanceCount > Len(targetKana)
                        THEN <<Complete>>
                        ELSE <<>>)

\* advanceChar that reports the input update before the typed kana
advanceChar_UpdateFirst ==
    /\ hCurrentIndex' = hCurrentIndex + advanceCount
    /\ currentInput' = <<>>
    /\ callbacks' = <<InputUpdate(TRUE, <<>>), KanaTyped(hCurrentIndex + advanceCount)>>
                    \o (IF hCurrentIndex + advanceCount >= Len(targetKana)
                        THEN <<Complete>>
                        ELSE <<>>)

\* advanceChar that forgets to clear currentInput
advanceChar_KeepsInput ==
    /\ hCurrentIndex' = hCurrentIndex + advanceCount
    /\ UNCHANGED currentInput
    /\ callbacks' = <<KanaTyped(hCurrentIndex + advanceCount), InputUpdate(TRUE, <<>>)>>
                    \o (IF hCurrentIndex + advanceCount >= Len(targetKana)
                        THEN <<Complete>>
                        ELSE <<>>)

\* InputHandler.advanceChar, called from handleKey on an exact match
advanceChar ==
    /\ hCurrentIndex' = hCurrentIndex + advanceCount
    /\ currentInput' = <<>>
    /\ callbacks' = <<KanaTyped(hCurrentIndex + advanceCount), InputUpdate(TRUE, <<>>)>>
                    \o (IF hCurrentIndex + advanceCount >= Len(targetKana)
                        THEN <<Complete>>
                        ELSE <<>>)

\* setTarget that keeps the typed part of the previous target
SetTarget_KeepsInput(kana) ==
    /\ matcher = "InputHandler"
    /\ targetKana' = kana
    /\ hCurrentIndex' = 0
    /\ currentInput' = currentInput
    /\ handleKeyReturn' = "none"
    /\ callbacks' = <<>>
    /\ UNCHANGED <<totalTyped, totalMisses, evaluatedCalls>>
    /\ UNCHANGED matcher
    /\ UNCHANGED coreVars

\* InputHandler.setTarget(kana)
SetTarget(kana) ==
    /\ matcher = "InputHandler"
    /\ targetKana' = kana
    /\ hCurrentIndex' = 0
    /\ currentInput' = <<>>
    /\ handleKeyReturn' = "none"
    /\ callbacks' = <<>>
    /\ UNCHANGED <<totalTyped, totalMisses, evaluatedCalls>>
    /\ UNCHANGED matcher
    /\ UNCHANGED coreVars

\* the finished test written with > in place of >=
handlerFinished_OffByOne == hCurrentIndex > Len(targetKana)

\* line 56: the cursor is at the end of the target
handlerFinished == hCurrentIndex >= Len(targetKana)

\* lines 85-106: nextInput is a prefix of a possible romaji
acceptKey(nextInput, exactMatch) ==
    /\ totalTyped < MaxTyped
    /\ totalTyped' = totalTyped + 1
    /\ UNCHANGED totalMisses
    /\ handleKeyReturn' = "true"
    /\ IF exactMatch
       THEN advanceChar
       ELSE /\ currentInput' = nextInput
            /\ callbacks' = <<InputUpdate(TRUE, nextInput)>>
            /\ UNCHANGED hCurrentIndex

\* a rejection that throws away what was typed for the current kana
rejectKey_ClearsInput ==
    /\ totalMisses < MaxMisses
    /\ totalMisses' = totalMisses + 1
    /\ UNCHANGED totalTyped
    /\ handleKeyReturn' = "false"
    /\ callbacks' = <<InputUpdate(FALSE, currentInput)>>
    /\ currentInput' = <<>>
    /\ UNCHANGED hCurrentIndex

\* a rejection that is also counted as a typed key
rejectKey_CountsTyped ==
    /\ totalMisses < MaxMisses
    /\ totalTyped < MaxTyped
    /\ totalMisses' = totalMisses + 1
    /\ totalTyped' = totalTyped + 1
    /\ handleKeyReturn' = "false"
    /\ callbacks' = <<InputUpdate(FALSE, currentInput)>>
    /\ UNCHANGED <<hCurrentIndex, currentInput>>

\* lines 107-111: nextInput is a prefix of no possible romaji
rejectKey ==
    /\ totalMisses < MaxMisses
    /\ totalMisses' = totalMisses + 1
    /\ UNCHANGED totalTyped
    /\ handleKeyReturn' = "false"
    /\ callbacks' = <<InputUpdate(FALSE, currentInput)>>
    /\ UNCHANGED <<hCurrentIndex, currentInput>>

\* InputHandler.handleKey(key)
HandleKey(key) ==
    /\ matcher = "InputHandler"
    /\ IF handlerFinished \/ Len(key) # 1
       THEN /\ handleKeyReturn' = "false"
            /\ callbacks' = <<>>
            /\ UNCHANGED <<hCurrentIndex, currentInput, totalTyped, totalMisses, evaluatedCalls>>
       ELSE LET possibleRomajis == getPossibleRomajis(targetKana, hCurrentIndex)
                nextInput == currentInput \o key
                isValidPrefix == \E i \in 1..Len(possibleRomajis) :
                                     startsWith(possibleRomajis[i], nextInput)
                exactMatch == \E i \in 1..Len(possibleRomajis) : possibleRomajis[i] = nextInput
            IN  /\ evaluatedCalls' = evaluatedCalls + 1
                /\ IF isValidPrefix
                   THEN acceptKey(nextInput, exactMatch)
                   ELSE rejectKey
    /\ UNCHANGED <<matcher, targetKana>>
    /\ UNCHANGED coreVars

(***************************************************************************)
(* The specification.                                                      *)
(***************************************************************************)
\* a client constructs one matcher: new RomajiCore(kanaText), or
\* new InputHandler() whose target is loaded later by setTarget
\* the fields of a GameEngine after construction; no guide has been rendered
EngineConstructed ==
    /\ isRunning = FALSE
    /\ sentencesCompletedkq = 0
    /\ timerInterval = "none"
    /\ onFinishCalls = 0
    /\ guideOffset = 0
    /\ sentenceTyped = 0

\* nothing is stored under STORAGE_KEY and saveScore has not been called
StoreEmpty ==
    /\ scores = <<>>
    /\ saveScoreReturn = "none"
    /\ saveScoreCalls = 0

Init ==
    /\ matcher \in {"RomajiCore", "InputHandler"}
    /\ kanaText \in (IF matcher = "RomajiCore" THEN Targets ELSE {<<>>})
    /\ currentIndex = 0
    /\ currentInputBuffer = <<>>
    /\ inputReturn = "none"
    /\ targetKana = <<>>
    /\ hCurrentIndex = 0
    /\ currentInput = <<>>
    /\ totalTyped = 0
    /\ totalMisses = 0
    /\ handleKeyReturn = "none"
    /\ callbacks = <<>>
    /\ evaluatedCalls = 0
    /\ EngineConstructed
    /\ StoreEmpty

Next ==
    \/ /\ \E key \in Keys : Input(key)
       /\ UNCHANGED <<engineVars, rankingVars>>
    \/ /\ \E key \in Keys \cup NonCharKeys : HandleKey(key)
       /\ UNCHANGED <<engineVars, rankingVars>>
    \/ /\ \E kana \in HandlerTargets : SetTarget(kana)
       /\ UNCHANGED <<engineVars, rankingVars>>

Spec == Init /\ [][Next]_vars

(***************************************************************************)
(* A second specification, over the whole table: a RomajiCore whose target *)
(* is any unit key of ROMAJI_TABLE (or a character without an entry),      *)
(* alone, after っ or ん, and before one more kana; any character of the   *)
(* table can be typed.                                                     *)
(***************************************************************************)
\* the characters of the spellings of the table, and one that is in none
TableChars ==
    UNION {{S[i] : i \in 1..Len(S)} :
               S \in UNION {{ROMAJI_TABLE[k][i] : i \in 1..Len(ROMAJI_TABLE[k])} :
                                k \in DOMAIN ROMAJI_TABLE}}
        \cup {"?"}

TableKeys == {<<c>> : c \in TableChars}

TablePreceders == {<<>>, <<"XTSU">>, <<"NN">>}

TableFollowers == {<<>>, <<"TO">>, <<"XYA">>, <<"NN">>}

TableTargets ==
    {p \o k \o f : p \in TablePreceders,
                   k \in DOMAIN ROMAJI_TABLE \cup {<<"KANJI">>},
                   f \in TableFollowers}

InitTable ==
    /\ matcher = "RomajiCore"
    /\ kanaText \in TableTargets
    /\ currentIndex = 0
    /\ currentInputBuffer = <<>>
    /\ inputReturn = "none"
    /\ targetKana = <<>>
    /\ hCurrentIndex = 0
    /\ currentInput = <<>>
    /\ totalTyped = 0
    /\ totalMisses = 0
    /\ handleKeyReturn = "none"
    /\ callbacks = <<>>
    /\ evaluatedCalls = 0
    /\ EngineConstructed
    /\ StoreEmpty

NextTable ==
    /\ \E key \in TableKeys : Input(key)
    /\ UNCHANGED <<engineVars, rankingVars>>

SpecTable == InitTable /\ [][NextTable]_vars

(***************************************************************************)
(* A third specification: a new InputHandler is given one target of kana   *)
(* it knows, and the player types the guide getTargetRomaji() shows,       *)
(* character by character.                                                 *)
(***************************************************************************)
GuideKana == {"TO", "KA", "SHI", "XYA", "NN", "XTSU"}

GuideTargets == SeqsUpTo(GuideKana, MaxHandlerLen) \ {<<>>}

\* the number of characters of the guide fed to handleKey so far
guideFed == getStats.typed + getStats.misses

InitGuide ==
    /\ matcher = "InputHandler"
    /\ kanaText = <<>>
    /\ currentIndex = 0
    /\ currentInputBuffer = <<>>
    /\ inputReturn = "none"
    /\ targetKana = <<>>
    /\ hCurrentIndex = 0
    /\ currentInput = <<>>
    /\ totalTyped = 0
    /\ totalMisses = 0
    /\ handleKeyReturn = "none"
    /\ callbacks = <<>>
    /\ evaluatedCalls = 0
    /\ EngineConstructed
    /\ StoreEmpty

SetGuideTarget ==
    /\ targetKana = <<>>
    /\ \E kana \in GuideTargets : SetTarget(kana)
    /\ UNCHANGED <<engineVars, rankingVars>>

TypeGuide ==
    /\ guideFed < Len(getTargetRomaji)
    /\ HandleKey(<<getTargetRomaji[guideFed + 1]>>)
    /\ UNCHANGED <<engineVars, rankingVars>>

NextGuide ==
    \/ SetGuideTarget
    \/ TypeGuide

SpecGuide == InitGuide /\ [][NextGuide]_vars

(***************************************************************************)
(* GameEngine: a session of sentencesToType sentences typed into one       *)
(* InputHandler.  The callbacks the engine installs on the handler run     *)
(* inside handleKey, so a keydown event is one step.                       *)
(***************************************************************************)
sentencesToType == 5

\* kana of the sentences TextGenerator.getRandomSentence() draws from; short
\* sentences stand for the entries of DATA
Sentences == {<<"A">>, <<"TO">>, <<"TO", "A">>}

\* names of the keys of keydown events: letters, capital letters, a key
\* that is in no spelling, and a key whose name is not one character
EventKeys == {<<"a">>, <<"t">>, <<"o">>, <<"A">>, <<"T">>, <<"z">>,
              <<"E", "n", "t", "e", "r">>}

KeyEvents == [key : EventKeys, ctrlKey : BOOLEAN, altKey : BOOLEAN, metaKey : BOOLEAN]

\* String.prototype.toLowerCase on the letters of EventKeys
toLowerCase(str) ==
    [i \in 1..Len(str) |-> IF str[i] = "A" THEN "a"
                           ELSE IF str[i] = "T" THEN "t"
                           ELSE IF str[i] = "E" THEN "e"
                           ELSE str[i]]

\* handleKey(key) would complete the last unit of the target and fire onComplete
keyCompletesTarget(key) ==
    /\ ~handlerFinished
    /\ Len(key) = 1
    /\ LET possibleRomajis == getPossibleRomajis(targetKana, hCurrentIndex)
       IN  \E i \in 1..Len(possibleRomajis) : possibleRomajis[i] = currentInput \o key
    /\ hCurrentIndex + advanceCount >= Len(targetKana)

\* GameEngine.finishGame
finishGame ==
    /\ isRunning' = FALSE
    /\ timerInterval' = "none"
    /\ onFinishCalls' = onFinishCalls + 1

\* handleKey(key) on a key that does not complete the target: onInputUpdate
\* runs updateInputUI, which renders the guide
forwardWithinSentence(key) ==
    /\ HandleKey(key)
    /\ guideOffset' = (IF \E i \in 1..Len(callbacks') : callbacks'[i].cb = "onInputUpdate"
                       THEN totalTyped'
                       ELSE guideOffset)
    /\ sentenceTyped' = (IF handleKeyReturn' = "true" THEN sentenceTyped + 1 ELSE sentenceTyped)
    /\ UNCHANGED <<isRunning, sentencesCompletedkq, timerInterval, onFinishCalls>>

\* handleKey(key) on the key that completes the last sentence: onComplete
\* runs finishGame
forwardLastSentence(key) ==
    /\ HandleKey(key)
    /\ sentencesCompletedkq' = sentencesCompletedkq + 1
    /\ guideOffset' = totalTyped'
    /\ sentenceTyped' = sentenceTyped + 1
    /\ finishGame

\* handleKey(key) on the key that completes an earlier sentence: onComplete
\* runs nextSentence, whose setTarget and renderRomajiGuide act on the
\* handler before handleKey returns true
forwardNextSentence(key) ==
    /\ totalTyped < MaxTyped
    /\ totalTyped' = totalTyped + 1
    /\ UNCHANGED totalMisses
    /\ evaluatedCalls' = evaluatedCalls + 1
    /\ handleKeyReturn' = "true"
    /\ callbacks' = <<KanaTyped(hCurrentIndex + advanceCount), InputUpdate(TRUE, <<>>), Complete>>
    /\ sentencesCompletedkq' = sentencesCompletedkq + 1
    /\ \E kana \in Sentences : targetKana' = kana
    /\ hCurrentIndex' = 0
    /\ currentInput' = <<>>
    /\ guideOffset' = totalTyped'
    /\ sentenceTyped' = 0
    /\ UNCHANGED <<isRunning, timerInterval, onFinishCalls>>
    /\ UNCHANGED matcher
    /\ UNCHANGED coreVars

\* this.inputHandler.handleKey(key) with the callbacks of setupHandlerEvents
forwardKey(key) ==
    IF keyCompletesTarget(key)
    THEN IF sentencesCompletedkq + 1 >= sentencesToType
         THEN forwardLastSentence(key)
         ELSE forwardNextSentence(key)
    ELSE forwardWithinSentence(key)

\* the keydown listener that forwards keys whether or not a game is running
Keydown_IgnoresRunning(e) ==
    /\ matcher = "InputHandler"
    /\ IF Len(e.key) = 1 /\ ~e.ctrlKey /\ ~e.altKey /\ ~e.metaKey
       THEN forwardKey(toLowerCase(e.key))
       ELSE UNCHANGED <<matcher, coreVars, handlerVars, engineVars>>
    /\ UNCHANGED rankingVars

\* the keydown listener of the constructor
Keydown(e) ==
    /\ matcher = "InputHandler"
    /\ IF isRunning /\ Len(e.key) = 1 /\ ~e.ctrlKey /\ ~e.altKey /\ ~e.metaKey
       THEN forwardKey(toLowerCase(e.key))
       ELSE UNCHANGED <<matcher, coreVars, handlerVars, engineVars>>
    /\ UNCHANGED rankingVars

\* GameEngine.start(): a new InputHandler, the first sentence, the timer
Start ==
    /\ matcher = "InputHandler"
    /\ isRunning' = TRUE
    /\ sentencesCompletedkq' = 0
    /\ totalTyped' = 0
    /\ totalMisses' = 0
    /\ evaluatedCalls' = 0
    /\ handleKeyReturn' = "none"
    /\ callbacks' = <<>>
    /\ \E kana \in Sentences : targetKana' = kana
    /\ hCurrentIndex' = 0
    /\ currentInput' = <<>>
    /\ guideOffset' = totalTyped'
    /\ sentenceTyped' = 0
    /\ timerInterval' = "set"
    /\ onFinishCalls' = 0
    /\ UNCHANGED matcher
    /\ UNCHANGED coreVars
    /\ UNCHANGED rankingVars

InitGame ==
    /\ matcher = "InputHandler"
    /\ kanaText = <<>>
    /\ currentIndex = 0
    /\ currentInputBuffer = <<>>
    /\ inputReturn = "none"
    /\ targetKana = <<>>
    /\ hCurrentIndex = 0
    /\ currentInput = <<>>
    /\ totalTyped = 0
    /\ totalMisses = 0
    /\ handleKeyReturn = "none"
    /\ callbacks = <<>>
    /\ evaluatedCalls = 0
    /\ EngineConstructed
    /\ StoreEmpty

NextGame ==
    \/ Start
    \/ \E e \in KeyEvents : Keydown(e)

SpecGame == InitGame /\ [][NextGame]_vars

(***************************************************************************)
(* RankingManager: the list kept in localStorage under STORAGE_KEY.  An    *)
(* entry is a record of wpm, accuracy and timestamp; its date string is    *)
(* not modelled.                                                           *)
(***************************************************************************)
Wpms == {40, 60}

Accuracies == {90, 100}

\* values Date.now() returns during the saveScore calls; two calls can
\* read the same value
NowValues == {10, 11}

ScoreEntry(wpm, accuracy, timestamp) ==
    [wpm |-> wpm, accuracy |-> accuracy, timestamp |-> timestamp]

\* a list of ten entries that earlier saveScore calls left in the store,
\* the latest of them at timestamp 10
SavedStore ==
    [i \in 1..10 |-> ScoreEntry(IF i <= 6 THEN 60 ELSE 40,
                                IF i <= 3 \/ i \in 7..8 THEN 100 ELSE 90,
                                11 - i)]

\* RankingManager.getScores()
getScores == scores

\* the comparator that looks at wpm only
compareScores_WpmOnly(a, b) == b.wpm - a.wpm

\* the comparator of scores.sort: negative when a goes before b
compareScores(a, b) ==
    IF b.wpm # a.wpm THEN b.wpm - a.wpm ELSE b.accuracy - a.accuracy

\* one step of a stable sort: x goes after the entries of a sorted list
\* that do not compare after it
insertScore(sorted, x) ==
    LET k == Cardinality({i \in 1..Len(sorted) : compareScores(sorted[i], x) <= 0})
    IN  SubSeq(sorted, 1, k) \o <<x>> \o SubSeq(sorted, k + 1, Len(sorted))

\* Array.prototype.sort with compareScores; the sort is stable
RECURSIVE sortScores(_)
sortScores(list) ==
    IF Len(list) = 0
    THEN <<>>
    ELSE insertScore(sortScores(SubSeq(list, 1, Len(list) - 1)), list[Len(list)])

\* list.slice(0, n)
sliceTo(list, n) == SubSeq(list, 1, IF Len(list) < n THEN Len(list) ELSE n)

\* RankingManager.saveScore(wpm, accuracy), with now the value of Date.now()
SaveScore(wpm, accuracy, now) ==
    /\ saveScoreCalls < MaxSaves
    /\ LET newEntry == ScoreEntry(wpm, accuracy, now)
           top10 == sliceTo(sortScores(Append(getScores, newEntry)), 10)
       IN  /\ scores' = top10
           /\ saveScoreReturn' = (IF \E i \in 1..Len(top10) : top10[i].timestamp = newEntry.timestamp
                                  THEN "true"
                                  ELSE "false")
    /\ saveScoreCalls' = saveScoreCalls + 1
    /\ UNCHANGED <<matcher, coreVars, handlerVars, engineVars>>

InitRanking ==
    /\ matcher = "InputHandler"
    /\ kanaText = <<>>
    /\ currentIndex = 0
    /\ currentInputBuffer = <<>>
    /\ inputReturn = "none"
    /\ targetKana = <<>>
    /\ hCurrentIndex = 0
    /\ currentInput = <<>>
    /\ totalTyped = 0
    /\ totalMisses = 0
    /\ handleKeyReturn = "none"
    /\ callbacks = <<>>
    /\ evaluatedCalls = 0
    /\ EngineConstructed
    /\ scores \in {<<>>, SavedStore}
    /\ saveScoreReturn = "none"
    /\ saveScoreCalls = 0

NextRanking ==
    \E wpm \in Wpms, accuracy \in Accuracies, now \in NowValues :
        SaveScore(wpm, accuracy, now)

SpecRanking == InitRanking /\ [][NextRanking]_vars

TypeOK ==
    /\ matcher \in {"RomajiCore", "InputHandler"}
    /\ currentIndex \in 0..(MaxLen + 1)
    /\ hCurrentIndex \in 0..(MaxLen + 1)
    /\ totalTyped \in 0..MaxTyped
    /\ totalMisses \in 0..MaxMisses
    /\ inputReturn \in {"none", "true", "false"}
    /\ handleKeyReturn \in {"none", "true", "false"}

(***************************************************************************)
(* Vocabulary of the properties, read off the table and the state.         *)
(***************************************************************************)
\* the spellings ROMAJI_TABLE lists for a unit key, as a set
SpellingsOf(unit) ==
    IF unit \in DOMAIN ROMAJI_TABLE
    THEN {ROMAJI_TABLE[unit][i] : i \in 1..Len(ROMAJI_TABLE[unit])}
    ELSE {}

\* p is a prefix of s, p is a proper prefix of s
IsPrefix(p, s) == Len(p) <= Len(s) /\ \A i \in 1..Len(p) : p[i] = s[i]

IsProperPrefix(p, s) == Len(p) < Len(s) /\ IsPrefix(p, s)

\* the kana at the cursor of the RomajiCore and the one after it
KanaAtCursor == charAt(kanaText, currentIndex)

KanaAfterCursor == charAt(kanaText, currentIndex + 1)

\* the first characters of the two-kana keys of the table
ComboHeads == {k[1] : k \in {u \in DOMAIN ROMAJI_TABLE : Len(u) = 2}}

\* a plain single-kana unit is at the cursor
PlainUnitAtCursor ==
    /\ currentIndex < Len(kanaText)
    /\ KanaAtCursor \notin {"XTSU", "NN"}
    /\ KanaAtCursor \notin ComboHeads

(***************************************************************************)
(* C1: RomajiCore.input on a plain single-kana unit, with tentative =      *)
(* buffer + key: a tentative equal to a spelling of the unit returns true, *)
(* advances the cursor by exactly 1 and empties the buffer; a tentative    *)
(* that is only a proper prefix of a spelling returns true, keeps the      *)
(* cursor and stores the tentative as the buffer; a tentative that is a    *)
(* prefix of no spelling returns false and changes neither.                *)
(***************************************************************************)
C1_PlainUnitStep(key) ==
    LET tentative == currentInputBuffer \o key
        unit == SpellingsOf(<<KanaAtCursor>>)
    IN  IF tentative \in unit
        THEN /\ inputReturn' = "true"
             /\ currentIndex' = currentIndex + 1
             /\ currentInputBuffer' = <<>>
        ELSE IF \E s \in unit : IsProperPrefix(tentative, s)
             THEN /\ inputReturn' = "true"
                  /\ currentIndex' = currentIndex
                  /\ currentInputBuffer' = tentative
             ELSE /\ inputReturn' = "false"
                  /\ currentIndex' = currentIndex
                  /\ currentInputBuffer' = currentInputBuffer

C1_PlainUnit ==
    [][PlainUnitAtCursor => \A key \in Keys : Input(key) => C1_PlainUnitStep(key)]_vars

\* と at the head of とし has been completed
C1_Witness ==
    /\ matcher = "RomajiCore"
    /\ kanaText = <<"TO", "SHI">>
    /\ currentIndex = 1
    /\ currentInputBuffer = <<>>
    /\ inputReturn = "true"

\* the key of the unit that starts at position i of a target (i counted from
\* 0): the two-kana key when the two characters form one, else the one kana
UnitKeyAt(text, i) ==
    IF i + 1 < Len(text) /\ <<text[i + 1], text[i + 2]>> \in DOMAIN ROMAJI_TABLE
    THEN <<text[i + 1], text[i + 2]>>
    ELSE <<text[i + 1]>>

UnitAtCursor == UnitKeyAt(kanaText, currentIndex)

\* a key would be accepted by RomajiCore.input in the current state
Accepts(key) ==
    /\ ~isFinished
    /\ checkMatch(substring(kanaText, currentIndex), currentInputBuffer \o key).matched

(***************************************************************************)
(* C2: every listed spelling is typeable.  For the unit at the cursor and  *)
(* every spelling S of its list, each key that extends the buffer along S  *)
(* is accepted; the unit is completed (cursor past the unit, buffer empty) *)
(* by the last key of S and by no earlier key of S.                        *)
(***************************************************************************)
C2_SpellingStep(key) ==
    LET tentative == currentInputBuffer \o key
    IN  \A S \in SpellingsOf(UnitAtCursor) :
            IsPrefix(tentative, S) =>
                /\ inputReturn' = "true"
                /\ IF tentative = S
                   THEN /\ currentIndex' = currentIndex + Len(UnitAtCursor)
                        /\ currentInputBuffer' = <<>>
                   ELSE /\ currentIndex' = currentIndex
                        /\ currentInputBuffer' = tentative

C2_EverySpellingTypeable ==
    [][~isFinished => \A key \in Keys : Input(key) => C2_SpellingStep(key)]_vars

(***************************************************************************)
(* C3: geminate spillover.  With っ at the cursor, an empty buffer and a   *)
(* following unit that accepts a spelling S, the key S[0] is accepted,     *)
(* moves the cursor by 1 and is itself the buffer of the following unit    *)
(* after the call.                                                         *)
(***************************************************************************)
SokuonBeforeUnit ==
    /\ currentIndex + 1 < Len(kanaText)
    /\ KanaAtCursor = "XTSU"
    /\ currentInputBuffer = <<>>

C3_GeminateSpillover ==
    [][SokuonBeforeUnit =>
         \A key \in Keys :
             (/\ Input(key)
              /\ \E S \in SpellingsOf(UnitKeyAt(kanaText, currentIndex + 1)) : S[1] = key[1])
             => /\ inputReturn' = "true"
                /\ currentIndex' = currentIndex + 1
                /\ currentInputBuffer' = key]_vars

(***************************************************************************)
(* C4: nasal guard.  With ん at the cursor followed by another unit, a     *)
(* bare 'n' that completes ん is never followed by an accepted vowel, 'y'  *)
(* or 'n': whenever the key 'n' alone has moved the cursor past ん, none   *)
(* of the keys a, i, u, e, o, y, n is accepted next for the following      *)
(* unit.                                                                   *)
(***************************************************************************)
GuardKeys == {<<"a">>, <<"i">>, <<"u">>, <<"e">>, <<"o">>, <<"y">>, <<"n">>}

NasalBeforeUnit ==
    /\ currentIndex + 1 < Len(kanaText)
    /\ KanaAtCursor = "NN"
    /\ currentInputBuffer = <<>>

C4_NasalGuard ==
    [][NasalBeforeUnit =>
         ((Input(<<"n">>) /\ currentIndex' = currentIndex + 1)
             => \A key \in GuardKeys : ~Accepts(key)')]_vars

(***************************************************************************)
(* C5: nasal before a consonant.  For ん followed by a unit U one of whose *)
(* spellings S starts with a consonant other than 'n' and 'y': the key 'n' *)
(* alone is accepted and completes ん (cursor + 1, buffer empty), and then *)
(* every key of S is accepted, the last one completing U and no earlier    *)
(* one moving the cursor.                                                  *)
(***************************************************************************)
NonConsonantStarts == {"a", "i", "u", "e", "o", "y", "n"}

\* the spellings of the unit at position i that start with a consonant
\* other than 'n' and 'y'
ConsonantSpellingsAt(text, i) ==
    {S \in SpellingsOf(UnitKeyAt(text, i)) : S[1] \notin NonConsonantStarts}

\* the key 'n' typed on ん that stands before such a unit
C5_NasalStep ==
    (/\ NasalBeforeUnit
     /\ ConsonantSpellingsAt(kanaText, currentIndex + 1) # {}
     /\ Input(<<"n">>))
    => /\ inputReturn' = "true"
       /\ currentIndex' = currentIndex + 1
       /\ currentInputBuffer' = <<>>

\* the cursor stands on the unit that follows a ん
AfterNasal ==
    /\ currentIndex >= 1
    /\ currentIndex < Len(kanaText)
    /\ kanaText[currentIndex] = "NN"

\* a key that extends the buffer along the spelling S of the unit after ん
C5_FollowingStep(key, S) ==
    LET tentative == currentInputBuffer \o key
    IN  (IsPrefix(tentative, S) /\ Input(key))
        => /\ inputReturn' = "true"
           /\ IF tentative = S
              THEN /\ currentIndex' = currentIndex + Len(UnitAtCursor)
                   /\ currentInputBuffer' = <<>>
              ELSE /\ currentIndex' = currentIndex
                   /\ currentInputBuffer' = tentative

DoublingShadows(S) ==
    /\ KanaAtCursor = "XTSU"
    /\ currentIndex + 1 < Len(kanaText)
    /\ \E R \in SpellingsOf(<<KanaAfterCursor>>) : R[1] = S[1]

C6_HandlerReject ==
    \/ /\ hCurrentIndex' = hCurrentIndex
       /\ currentInput' = currentInput
       /\ totalTyped' = totalTyped
       /\ totalMisses' = totalMisses + 1
    \/ ~(/\ hCurrentIndex < Len(targetKana)
         /\ handleKeyReturn' = "false"
         /\ \E key \in Keys : HandleKey(key))

C6_CoreReject ==
    \/ /\ currentIndex' = currentIndex
       /\ currentInputBuffer' = currentInputBuffer
    \/ ~(inputReturn' = "false" /\ \E key \in Keys : Input(key))

C6_RejectedKeystroke == [][C6_HandlerReject /\ C6_CoreReject]_vars

\* a key has been rejected in the middle of a spelling of し
C6_Witness ==
    /\ matcher = "InputHandler"
    /\ targetKana = <<"SHI">>
    /\ currentInput = <<"s">>
    /\ totalTyped = 1
    /\ totalMisses = 1
    /\ handleKeyReturn = "false"

(***************************************************************************)
(* C7: counter conservation.  Every handleKey call made with a             *)
(* one-character key while the target is not finished increments exactly   *)
(* one of totalTyped (accepted) and totalMisses (rejected) by exactly 1,   *)
(* so totalTyped + totalMisses is the number of such calls.                *)
(***************************************************************************)
\* the implication is written consequent first, as (consequent \/ ~antecedent)
C7_EvaluatedCall ==
    \/ /\ handleKeyReturn' = "true"
       /\ totalTyped' = totalTyped + 1
       /\ totalMisses' = totalMisses
    \/ /\ handleKeyReturn' = "false"
       /\ totalTyped' = totalTyped
       /\ totalMisses' = totalMisses + 1
    \/ ~(/\ hCurrentIndex < Len(targetKana)
         /\ handleKeyReturn' \in {"true", "false"}
         /\ \E key \in Keys : HandleKey(key))

C7_CounterConservation ==
    /\ [](totalTyped + totalMisses = evaluatedCalls)
    /\ [][C7_EvaluatedCall]_vars

\* accepted and rejected keys have both been counted
C7_Witness ==
    /\ matcher = "InputHandler"
    /\ totalTyped = 2
    /\ totalMisses = 1
    /\ evaluatedCalls = 3

(***************************************************************************)
(* C8: prefix invariant.  While a matcher is not finished its buffer is    *)
(* empty or a proper prefix of a spelling accepted for the unit at the     *)
(* cursor, and it is never equal to a full accepted spelling.              *)
(***************************************************************************)
\* what RomajiCore accepts at the cursor: the spellings of the single kana,
\* of the two-kana contraction that starts there and, for っ before another
\* kana, the first letters of that kana's spellings (doubling)
CoreAcceptedAtCursor ==
    SpellingsOf(<<KanaAtCursor>>)
        \cup SpellingsOf(UnitAtCursor)
        \cup (IF KanaAtCursor = "XTSU" /\ currentIndex + 1 < Len(kanaText)
              THEN {<<S[1]>> : S \in SpellingsOf(<<KanaAfterCursor>>)}
              ELSE {})

\* what InputHandler accepts at the cursor
HandlerAcceptedAtCursor ==
    LET romajis == getPossibleRomajis(targetKana, hCurrentIndex)
    IN  {romajis[i] : i \in 1..Len(romajis)}

RestBuffer(buffer, accepted) ==
    \/ buffer = <<>>
    \/ /\ \E S \in accepted : IsProperPrefix(buffer, S)
       /\ buffer \notin accepted

C8_PrefixInvariant ==
    /\ currentIndex < Len(kanaText) => RestBuffer(currentInputBuffer, CoreAcceptedAtCursor)
    /\ hCurrentIndex < Len(targetKana) => RestBuffer(currentInput, HandlerAcceptedAtCursor)

\* two letters of the contraction しゃ are in the buffer
C8_Witness ==
    /\ matcher = "RomajiCore"
    /\ kanaText = <<"TO", "SHI", "XYA">>
    /\ currentIndex = 1
    /\ currentInputBuffer = <<"s", "y">>

(***************************************************************************)
(* C9: monotonic cursor.  No RomajiCore.input call decreases the cursor;   *)
(* a call changes it by 0, by 1 or by 2, and by 2 only when the two kana   *)
(* at the cursor form a contracted unit of the table.                      *)
(***************************************************************************)
C9_MonotonicCursor ==
    [][/\ currentIndex' \in {currentIndex, currentIndex + 1, currentIndex + 2}
       /\ currentIndex' = currentIndex + 2 => Len(UnitAtCursor) = 2]_vars

\* the contraction しゃ has been completed in one step of 2
C9_Witness ==
    /\ matcher = "RomajiCore"
    /\ kanaText = <<"SHI", "XYA", "TO">>
    /\ currentIndex = 2
    /\ currentInputBuffer = <<>>

(***************************************************************************)
(* C10: finished absorption.  Once the cursor is at the end of the target, *)
(* RomajiCore.input returns false and changes neither cursor nor buffer;   *)
(* InputHandler.handleKey returns false, changes no counter and fires no   *)
(* callback; without a setTarget the matcher stays finished.               *)
(***************************************************************************)
\* each implication is written consequent first, as (consequent \/ ~antecedent)
C10_CoreAbsorbs ==
    \/ /\ inputReturn' = "false"
       /\ currentIndex' = currentIndex
       /\ currentInputBuffer' = currentInputBuffer
       /\ isFinished'
    \/ ~(isFinished /\ \E key \in Keys : Input(key))

C10_HandlerAbsorbs ==
    \/ /\ handleKeyReturn' = "false"
       /\ totalTyped' = totalTyped
       /\ totalMisses' = totalMisses
       /\ hCurrentIndex' = hCurrentIndex
       /\ currentInput' = currentInput
       /\ callbacks' = <<>>
       /\ hCurrentIndex' >= Len(targetKana')
    \/ ~(/\ hCurrentIndex >= Len(targetKana)
         /\ \E key \in Keys \cup NonCharKeys : HandleKey(key))

C10_FinishedAbsorption == [][C10_CoreAbsorbs /\ C10_HandlerAbsorbs]_vars

\* a key has been refused by a handler whose target し is finished
C10_Witness ==
    /\ matcher = "InputHandler"
    /\ targetKana = <<"SHI">>
    /\ hCurrentIndex = 1
    /\ totalTyped = 2
    /\ handleKeyReturn = "false"
    /\ callbacks = <<>>

(***************************************************************************)
(* C11: sequence completion is signalled exactly when the cursor reaches   *)
(* the end.  RomajiCore.isFinished() is true exactly when the cursor is    *)
(* >= the target length; a handleKey call fires onComplete exactly when it *)
(* moves currentIndex from below the target length to >= it, so never from *)
(* a finished handler and never in a setTarget, and when it fires it is    *)
(* fired once.                                                             *)
(***************************************************************************)
\* the number of onComplete entries among the callbacks of a call
CompleteCount(cbs) == Cardinality({i \in 1..Len(cbs) : cbs[i].cb = "onComplete"})

C11_HandlerSignal ==
    /\ CompleteCount(callbacks') \in {0, 1}
    /\ CompleteCount(callbacks') = 1
          <=> /\ handleKeyReturn' = "true"
              /\ hCurrentIndex < Len(targetKana)
              /\ hCurrentIndex' >= Len(targetKana')
              /\ targetKana' = targetKana

C11_CoreFinished ==
    /\ isFinished <=> currentIndex >= Len(kanaText)
    /\ isFinished' <=> currentIndex' >= Len(kanaText')

C11_SequenceCompletion == [][C11_HandlerSignal /\ C11_CoreFinished]_vars

\* the last key of し has fired onComplete after the other two callbacks
C11_Witness ==
    /\ matcher = "InputHandler"
    /\ targetKana = <<"SHI">>
    /\ hCurrentIndex = 1
    /\ callbacks = <<KanaTyped(1), InputUpdate(TRUE, <<>>), Complete>>

(***************************************************************************)
(* C12: an unknown unit is permanently unmatchable.  When the character at *)
(* the cursor has no table entry and starts no two-kana table key, every   *)
(* one-character key is rejected, the cursor does not move and the matcher *)
(* does not become finished, in RomajiCore.input and in                    *)
(* InputHandler.handleKey, where the key is also counted as a miss.        *)
(***************************************************************************)
\* the first characters of the two-kana keys of COMBO_MAP
HandlerComboHeads == {k[1] : k \in DOMAIN COMBO_MAP}

HandlerKanaAtCursor == charAt(targetKana, hCurrentIndex)

C12_CoreUnknown ==
    (/\ currentIndex < Len(kanaText)
     /\ <<KanaAtCursor>> \notin DOMAIN ROMAJI_TABLE
     /\ KanaAtCursor \notin ComboHeads)
    => \A key \in Keys :
           Input(key) => /\ inputReturn' = "false"
                         /\ currentIndex' = currentIndex
                         /\ ~isFinished'

C12_HandlerUnknown ==
    (/\ hCurrentIndex < Len(targetKana)
     /\ <<HandlerKanaAtCursor>> \notin DOMAIN KANA_ROMAJI_MAP
     /\ HandlerKanaAtCursor \notin HandlerComboHeads)
    => \A key \in Keys :
           HandleKey(key) => /\ handleKeyReturn' = "false"
                             /\ hCurrentIndex' = hCurrentIndex
                             /\ totalMisses' = totalMisses + 1
                             /\ hCurrentIndex' < Len(targetKana')

C12_UnknownUnit == [][C12_CoreUnknown /\ C12_HandlerUnknown]_vars

(***************************************************************************)
(* C13: contracted unit.  When the two characters at the cursor form a     *)
(* two-kana table key, every key that extends the buffer along one of the  *)
(* contraction's spellings is accepted; the last key of the spelling moves *)
(* the cursor by exactly 2 and clears the buffer, and no earlier key moves *)
(* the cursor.                                                             *)
(***************************************************************************)
C13_ContractionStep(key) ==
    LET tentative == currentInputBuffer \o key
    IN  \A S \in SpellingsOf(UnitAtCursor) :
            IsPrefix(tentative, S) =>
                /\ inputReturn' = "true"
                /\ IF tentative = S
                   THEN /\ currentIndex' = currentIndex + 2
                        /\ currentInputBuffer' = <<>>
                   ELSE /\ currentIndex' = currentIndex
                        /\ currentInputBuffer' = tentative

C13_ContractedUnit ==
    [][(currentIndex < Len(kanaText) /\ Len(UnitAtCursor) = 2)
          => \A key \in TableKeys : Input(key) => C13_ContractionStep(key)]_vars

\* じゃ after っ has been completed, the cursor moving from 1 to 3
C13_Witness ==
    /\ kanaText = <<"XTSU", "JI", "XYA", "TO">>
    /\ currentIndex = 3
    /\ currentInputBuffer = <<>>
    /\ inputReturn = "true"

\* the first spelling of a unit's list
Canonical(unit) == ROMAJI_TABLE[unit][1]

\* a plain or contracted unit with a table entry is at the cursor
PlainOrContractedAtCursor ==
    /\ matcher = "RomajiCore"
    /\ currentIndex < Len(kanaText)
    /\ KanaAtCursor \notin {"XTSU", "NN"}
    /\ UnitAtCursor \in DOMAIN ROMAJI_TABLE

(***************************************************************************)
(* C14: hint for a plain or contracted unit.  In every unfinished state of *)
(* RomajiCore whose current unit is plain or contracted,                   *)
(* getProgress().toType is the first spelling of the unit without its      *)
(* first Len(buffer) characters.                                           *)
(***************************************************************************)
C14_HintStripsBuffer ==
    PlainOrContractedAtCursor
        => getProgress.toType
               = SubSeq(Canonical(UnitAtCursor),
                        Len(currentInputBuffer) + 1, Len(Canonical(UnitAtCursor)))

\* っ is at the cursor and the unit after it has a table entry
GeminateBeforeUnit ==
    /\ matcher = "RomajiCore"
    /\ currentIndex + 1 < Len(kanaText)
    /\ KanaAtCursor = "XTSU"
    /\ UnitKeyAt(kanaText, currentIndex + 1) \in DOMAIN ROMAJI_TABLE

(***************************************************************************)
(* C15: hint for the geminate unit.  When っ is at the cursor and the unit *)
(* after it has a table entry, getProgress().toType is the first letter of *)
(* that unit's first spelling, written twice.                              *)
(***************************************************************************)
C15_GeminateHint ==
    GeminateBeforeUnit
        => LET c == Canonical(UnitKeyAt(kanaText, currentIndex + 1))[1]
           IN  getProgress.toType = <<c, c>>

(***************************************************************************)
(* C16: empty target.  A RomajiCore constructed with the empty string is   *)
(* finished from the start, with cursor 0 and an empty buffer; no input    *)
(* call has returned true or changed the state, and getProgress().toType   *)
(* is the empty string.                                                    *)
(***************************************************************************)
C16_EmptyTarget ==
    (matcher = "RomajiCore" /\ kanaText = <<>>)
        => /\ isFinished
           /\ currentIndex = 0
           /\ currentInputBuffer = <<>>
           /\ inputReturn \in {"none", "false"}
           /\ getProgress.toType = <<>>

\* input has been called on the empty target
C16_Witness ==
    /\ matcher = "RomajiCore"
    /\ kanaText = <<>>
    /\ inputReturn = "false"

(***************************************************************************)
(* C17: InputHandler.setTarget(t).  As claimed: the call leaves            *)
(* currentIndex = 0, currentInput empty, totalTyped = 0 and                *)
(* totalMisses = 0.  As the code has it: the call sets the target to t,    *)
(* currentIndex to 0 and currentInput to empty, and leaves totalTyped and  *)
(* totalMisses as they were.                                               *)
(***************************************************************************)
C17_SetTargetStep == handleKeyReturn' = "none" /\ SetTarget(targetKana')

C17_ResetInPlace_AsClaimed ==
    [][(/\ hCurrentIndex' = 0
        /\ currentInput' = <<>>
        /\ totalTyped' = 0
        /\ totalMisses' = 0) \/ ~C17_SetTargetStep]_vars

C17_ResetInPlace ==
    [][(/\ hCurrentIndex' = 0
        /\ currentInput' = <<>>
        /\ totalTyped' = totalTyped
        /\ totalMisses' = totalMisses) \/ ~C17_SetTargetStep]_vars

\* a target set after keys have been typed and missed on an earlier one
C17_Witness ==
    /\ matcher = "InputHandler"
    /\ handleKeyReturn = "none"
    /\ targetKana = <<"SHI">>
    /\ hCurrentIndex = 0
    /\ currentInput = <<>>
    /\ totalTyped = 2
    /\ totalMisses = 1

(***************************************************************************)
(* C19: geminate acceptance set and tie-break.  With っ at the cursor, an  *)
(* empty buffer and a following character X, a key is accepted iff it is   *)
(* the first letter of a spelling of X, and then っ is completed, or a     *)
(* prefix of one of the spellings ltu/xtu/ltsu of っ, and then it is       *)
(* buffered; a key that is both completes っ; every other key is rejected. *)
(***************************************************************************)
C19_Step(key) ==
    IF key[1] \in {S[1] : S \in SpellingsOf(<<KanaAfterCursor>>)}
    THEN /\ inputReturn' = "true"
         /\ currentIndex' = currentIndex + 1
    ELSE IF \E S \in SpellingsOf(<<"XTSU">>) : IsPrefix(key, S)
         THEN /\ inputReturn' = "true"
              /\ currentIndex' = currentIndex
              /\ currentInputBuffer' = key
         ELSE /\ inputReturn' = "false"
              /\ currentIndex' = currentIndex
              /\ currentInputBuffer' = currentInputBuffer

C19_GeminateAcceptance ==
    [][(/\ currentIndex + 1 < Len(kanaText)
        /\ KanaAtCursor = "XTSU"
        /\ currentInputBuffer = <<>>)
          => \A key \in TableKeys : Input(key) => C19_Step(key)]_vars

\* っ before ゃ, whose spellings begin with the letters l and x of the
\* spellings of っ: the one key typed has completed っ
C19_Witness ==
    /\ kanaText = <<"XTSU", "XYA">>
    /\ currentIndex = 1
    /\ currentInputBuffer = <<>>
    /\ inputReturn = "true"

(***************************************************************************)
(* C20: っ as the last character of the target.  input accepts only keys   *)
(* that extend the buffer to a prefix of one of the spellings of っ,       *)
(* completes the unit, finishing the target, exactly when the buffer       *)
(* equals one of them, and rejects every other key.                        *)
(***************************************************************************)
C20_Step(key) ==
    LET tentative == currentInputBuffer \o key
    IN  IF tentative \in SpellingsOf(<<"XTSU">>)
        THEN /\ inputReturn' = "true"
             /\ currentIndex' = currentIndex + 1
             /\ currentInputBuffer' = <<>>
             /\ isFinished'
        ELSE IF \E S \in SpellingsOf(<<"XTSU">>) : IsPrefix(tentative, S)
             THEN /\ inputReturn' = "true"
                  /\ currentIndex' = currentIndex
                  /\ currentInputBuffer' = tentative
             ELSE /\ inputReturn' = "false"
                  /\ currentIndex' = currentIndex
                  /\ currentInputBuffer' = currentInputBuffer

C20_GeminateAlone ==
    [][(currentIndex + 1 = Len(kanaText) /\ KanaAtCursor = "XTSU")
          => \A key \in TableKeys : Input(key) => C20_Step(key)]_vars

\* the target っ typed to its end
C20_Witness ==
    /\ kanaText = <<"XTSU">>
    /\ currentIndex = 1
    /\ currentInputBuffer = <<>>
    /\ inputReturn = "true"

(***************************************************************************)
(* C21: contracted-unit fallback.  When the two characters at the cursor   *)
(* form a two-kana table key and buffer + key is a prefix of none of the   *)
(* contraction's spellings, the key is judged against the base character   *)
(* alone: a tentative equal to a spelling of the base character moves the  *)
(* cursor by 1 only, onto the small-form character, with an empty buffer;  *)
(* a proper prefix of one is buffered; anything else is rejected.          *)
(***************************************************************************)
C21_FallbackStep(key) ==
    LET tentative == currentInputBuffer \o key
        base == SpellingsOf(<<KanaAtCursor>>)
    IN  (\A S \in SpellingsOf(UnitAtCursor) : ~IsPrefix(tentative, S))
            => IF tentative \in base
               THEN /\ inputReturn' = "true"
                    /\ currentIndex' = currentIndex + 1
                    /\ currentInputBuffer' = <<>>
                    /\ KanaAtCursor' = KanaAfterCursor
               ELSE IF \E S \in base : IsProperPrefix(tentative, S)
                    THEN /\ inputReturn' = "true"
                         /\ currentIndex' = currentIndex
                         /\ currentInputBuffer' = tentative
                    ELSE /\ inputReturn' = "false"
                         /\ currentIndex' = currentIndex
                         /\ currentInputBuffer' = currentInputBuffer

C21_ContractedFallback ==
    [][(currentIndex < Len(kanaText) /\ Len(UnitAtCursor) = 2)
          => \A key \in TableKeys : Input(key) => C21_FallbackStep(key)]_vars

\* しゃ typed s, h, i: the cursor is on ゃ
C21_Witness ==
    /\ kanaText = <<"SHI", "XYA">>
    /\ currentIndex = 1
    /\ currentInputBuffer = <<>>
    /\ inputReturn = "true"

(***************************************************************************)
(* C22: typing the displayed guide completes the target.  For a target of  *)
(* kana known to InputHandler, each character of getTargetRomaji() fed to  *)
(* handleKey after setTarget is accepted, no miss is counted, and          *)
(* onComplete fires on the last character of the guide.                    *)
(***************************************************************************)
C22_GuideStep ==
    /\ handleKeyReturn' = "true"
    /\ totalMisses' = 0
    /\ (guideFed + 1 = Len(getTargetRomaji)) => (\E i \in 1..Len(callbacks') : callbacks'[i] = Complete)

C22_GuideCompletes ==
    [][C22_GuideStep
         \/ ~(/\ \A i \in 1..Len(targetKana) : <<targetKana[i]>> \in DOMAIN KANA_ROMAJI_MAP
              /\ TypeGuide)]_vars

(***************************************************************************)
(* C23: callback protocol of InputHandler.handleKey.  Every evaluated call *)
(* (target not finished, one-character key) invokes onInputUpdate exactly  *)
(* once: with valid = false and the unchanged buffer on a reject, with     *)
(* valid = true and the new buffer on a partial accept, with valid = true  *)
(* and the empty string on a unit completion.  onKanaTyped is invoked iff  *)
(* the cursor advanced, with the new cursor value and before               *)
(* onInputUpdate.  onComplete, when invoked, is the last callback.         *)
(***************************************************************************)
CallbackPositions(cbs, name) == {i \in 1..Len(cbs) : cbs[i].cb = name}

C23_Protocol(key) ==
    LET cbs == callbacks'
        updates == CallbackPositions(cbs, "onInputUpdate")
        typed == CallbackPositions(cbs, "onKanaTyped")
    IN  /\ Cardinality(updates) = 1
        /\ handleKeyReturn' = "false"
              => /\ cbs = <<InputUpdate(FALSE, currentInput)>>
                 /\ currentInput' = currentInput
        /\ (handleKeyReturn' = "true" /\ hCurrentIndex' = hCurrentIndex)
              => /\ cbs = <<InputUpdate(TRUE, currentInput \o key)>>
                 /\ currentInput' = currentInput \o key
        /\ hCurrentIndex' # hCurrentIndex
              => \A i \in updates : cbs[i] = InputUpdate(TRUE, <<>>)
        /\ (typed # {}) <=> (hCurrentIndex' # hCurrentIndex)
        /\ Cardinality(typed) <= 1
        /\ \A i \in typed : /\ cbs[i].index = hCurrentIndex'
                            /\ \A j \in updates : i < j
        /\ \A i \in CallbackPositions(cbs, "onComplete") : i = Len(cbs)

C23_CallbackProtocol ==
    [][(matcher = "InputHandler" /\ ~handlerFinished)
          => \A key \in Keys :
                 (handleKeyReturn' \in {"true", "false"} /\ HandleKey(key))
                     => C23_Protocol(key)]_vars

\* the contraction しゃ completed: the cursor moved by 2 and the three
\* callbacks fired in order
C23_Witness ==
    /\ matcher = "InputHandler"
    /\ targetKana = <<"SHI", "XYA">>
    /\ hCurrentIndex = 2
    /\ callbacks = <<KanaTyped(2), InputUpdate(TRUE, <<>>), Complete>>

(***************************************************************************)
(* C24: game session protocol.  After start(), each of the first four      *)
(* onComplete events loads a new sentence through setTarget and keeps the  *)
(* game running; the fifth calls finishGame, which invokes onFinish, once  *)
(* per start(), sets isRunning to false and stops the timer; from then     *)
(* until the next start() no keydown event reaches handleKey, so the       *)
(* handler and its counters do not change.  While running, exactly the     *)
(* keys of length 1 without ctrl/alt/meta are forwarded, lowercased.       *)
(***************************************************************************)
\* a handleKey call of this step fired onComplete
C24_OnCompleteFired ==
    /\ evaluatedCalls' = evaluatedCalls + 1
    /\ \E i \in 1..Len(callbacks') : callbacks'[i] = Complete

C24_Completion ==
    C24_OnCompleteFired
        => /\ sentencesCompletedkq' = sentencesCompletedkq + 1
           /\ IF sentencesCompletedkq < sentencesToType - 1
              THEN /\ isRunning'
                   /\ timerInterval' = "set"
                   /\ onFinishCalls' = onFinishCalls
                   /\ targetKana' \in Sentences
                   /\ hCurrentIndex' = 0
                   /\ currentInput' = <<>>
              ELSE /\ ~isRunning'
                   /\ timerInterval' = "none"
                   /\ onFinishCalls' = 1

C24_FinishOnce ==
    /\ onFinishCalls' \in {0, 1}
    /\ onFinishCalls' = onFinishCalls + 1
          => (C24_OnCompleteFired /\ sentencesCompletedkq' = sentencesToType)

C24_Stopped == (~isRunning /\ ~isRunning') => UNCHANGED handlerVars

C24_Forwarding ==
    isRunning
        => \A e \in KeyEvents :
               Keydown(e)
                   => IF Len(e.key) = 1 /\ ~e.ctrlKey /\ ~e.altKey /\ ~e.metaKey
                      THEN /\ evaluatedCalls' = evaluatedCalls + 1
                           /\ handleKeyReturn' = "true"
                                 <=> LET possible == getPossibleRomajis(targetKana, hCurrentIndex)
                                     IN  \E i \in 1..Len(possible) :
                                             startsWith(possible[i],
                                                        currentInput \o toLowerCase(e.key))
                      ELSE UNCHANGED handlerVars

C24_SessionProtocol ==
    [][C24_Completion /\ C24_FinishOnce /\ C24_Stopped /\ C24_Forwarding]_vars

\* a game of five sentences has been typed to its end
C24_Witness ==
    /\ ~isRunning
    /\ sentencesCompletedkq = sentencesToType
    /\ onFinishCalls = 1
    /\ timerInterval = "none"
    /\ handleKeyReturn = "true"

(***************************************************************************)
(* C25: guide progress stays within the current sentence.  The offset at   *)
(* which renderRomajiGuide last split the guide of the current sentence    *)
(* equals the number of keys accepted toward the current sentence; it is 0 *)
(* right after nextSentence() has loaded a sentence.                       *)
(***************************************************************************)
C25_GuideWithinSentence == guideOffset = sentenceTyped

(***************************************************************************)
(* C26: the cursor stays in bounds.  In every reachable state              *)
(* 0 <= currentIndex <= length(target), for RomajiCore and for             *)
(* InputHandler; the cursor moves by 2 only when at least two characters   *)
(* remain at the cursor.                                                   *)
(***************************************************************************)
C26_InBounds ==
    /\ 0 <= currentIndex /\ currentIndex <= Len(kanaText)
    /\ 0 <= hCurrentIndex /\ hCurrentIndex <= Len(targetKana)

C26_AdvanceByTwo ==
    /\ (kanaText' = kanaText /\ currentIndex' = currentIndex + 2)
          => currentIndex + 2 <= Len(kanaText)
    /\ (targetKana' = targetKana /\ hCurrentIndex' = hCurrentIndex + 2)
          => hCurrentIndex + 2 <= Len(targetKana)

C26_CursorInBounds == [](C26_InBounds) /\ [][C26_AdvanceByTwo]_vars

\* the InputHandler cursor moved by 2 onto the end of しゃ
C26_Witness ==
    /\ matcher = "InputHandler"
    /\ targetKana = <<"SHI", "XYA">>
    /\ hCurrentIndex = Len(targetKana)
    /\ totalTyped = 3

\* entry a ranks at or above entry b: more wpm, or the same wpm and at
\* least the accuracy
RanksAtOrAbove(a, b) ==
    \/ a.wpm > b.wpm
    \/ a.wpm = b.wpm /\ a.accuracy >= b.accuracy

\* the position the entry of a saveScore call takes among the stored
\* entries: behind every one that ranks at or above it
NewEntryPosition(entry) ==
    1 + Cardinality({i \in 1..Len(scores) : RanksAtOrAbove(scores[i], entry)})

(***************************************************************************)
(* C27: leaderboard invariant.  From an empty or previously saved store,   *)
(* after any saveScore calls the stored list has at most 10 entries and is *)
(* ordered by wpm descending, then accuracy descending.  A call keeps the  *)
(* stored entries in their order and puts the new entry behind the stored  *)
(* ones that rank at or above it; an entry is dropped only when the 10     *)
(* kept ones rank at or above it.                                          *)
(***************************************************************************)
C27_Ordered ==
    /\ Len(scores) <= 10
    /\ \A i \in 1..Len(scores) : \A j \in i..Len(scores) : RanksAtOrAbove(scores[i], scores[j])

C27_SaveStep(wpm, accuracy, now) ==
    LET entry == ScoreEntry(wpm, accuracy, now)
        p == NewEntryPosition(entry)
        merged == SubSeq(scores, 1, p - 1) \o <<entry>> \o SubSeq(scores, p, Len(scores))
    IN  /\ Len(scores') = (IF Len(merged) > 10 THEN 10 ELSE Len(merged))
        /\ \A i \in 1..Len(scores') : scores'[i] = merged[i]
        /\ Len(merged) > 10 => \A i \in 1..10 : RanksAtOrAbove(scores'[i], merged[11])

C27_Leaderboard ==
    /\ [](C27_Ordered)
    /\ [][\A wpm \in Wpms, accuracy \in Accuracies, now \in NowValues :
              SaveScore(wpm, accuracy, now) => C27_SaveStep(wpm, accuracy, now)]_vars

\* a score saved into the full store has pushed the last stored entry out
C27_Witness ==
    /\ Len(scores) = 10
    /\ scores[1] = ScoreEntry(60, 100, 10)
    /\ scores[4] = ScoreEntry(60, 100, 11)
    /\ scores[10] = SavedStore[9]
    /\ saveScoreCalls = 1

(***************************************************************************)
(* C28: saveScore returns true iff the entry created by the call is among  *)
(* the entries it writes to storage; it returns false whenever the new     *)
(* entry was cut off, also when a stored entry carries the timestamp of    *)
(* the new one.                                                            *)
(***************************************************************************)
C28_SaveScoreReturn ==
    [][\A wpm \in Wpms, accuracy \in Accuracies, now \in NowValues :
           SaveScore(wpm, accuracy, now)
               => (saveScoreReturn' = "true"
                      <=> NewEntryPosition(ScoreEntry(wpm, accuracy, now)) <= 10)]_vars

====
